---- MODULE Spec2Model ----
(***************************************************************************)
(* Model of mass_mailer.py: the three loaders (load_config, load_template, *)
(* load_emails) and the __main__ script (initialisation, send loop, final  *)
(* report).                                                                *)
(*                                                                         *)
(* A Python string is a sequence of one-character strings.  Python's None  *)
(* is the value None below, which no string equals.                        *)
(***************************************************************************)
EXTENDS Integers, Sequences, FiniteSets, TLC

\* ------------------------------------------------------------ bounds
\* Longest recipient file (in lines) the specifications draw.
MaxRows == 3
\* Longest run of FROM / REPLY-TO lines SpecConfig appends to a config file.
MaxCfgExtra == 3

\* ------------------------------------------------------------ strings
None == <<"<None>">>
BadByte == "<ff>"
NL == "\n"
Whitespace == {" ", "\t", "\n", "\r"}

Lowers == <<"a","b","c","d","e","f","g","h","i","j","k","l","m",
            "n","o","p","q","r","s","t","u","v","w","x","y","z">>
Uppers == <<"A","B","C","D","E","F","G","H","I","J","K","L","M",
            "N","O","P","Q","R","S","T","U","V","W","X","Y","Z">>

UpperChar(c) ==
    IF \E k \in 1..Len(Lowers) : Lowers[k] = c
    THEN Uppers[CHOOSE k \in 1..Len(Lowers) : Lowers[k] = c]
    ELSE c

LowerChar(c) ==
    IF \E k \in 1..Len(Uppers) : Uppers[k] = c
    THEN Lowers[CHOOSE k \in 1..Len(Uppers) : Uppers[k] = c]
    ELSE c

\* str.upper(), str.lower()
Upper(str) == [k \in 1..Len(str) |-> UpperChar(str[k])]
Lower(str) == [k \in 1..Len(str) |-> LowerChar(str[k])]

\* str.strip()
RECURSIVE LStrip(_)
LStrip(str) ==
    IF Len(str) > 0 /\ Head(str) \in Whitespace THEN LStrip(Tail(str)) ELSE str

RECURSIVE RStrip(_)
RStrip(str) ==
    IF Len(str) > 0 /\ str[Len(str)] \in Whitespace
    THEN RStrip(SubSeq(str, 1, Len(str) - 1))
    ELSE str

Strip(str) == RStrip(LStrip(str))

\* str.split(sep) for a one-character separator: always at least one part.
RECURSIVE Split(_, _)
Split(str, sep) ==
    IF \E k \in 1..Len(str) : str[k] = sep
    THEN LET k == CHOOSE k \in 1..Len(str) :
                      str[k] = sep /\ \A j \in 1..(k - 1) : str[j] # sep
         IN  <<SubSeq(str, 1, k - 1)>> \o Split(SubSeq(str, k + 1, Len(str)), sep)
    ELSE <<str>>

\* c in str, for a one-character c
Contains(str, c) == \E k \in 1..Len(str) : str[k] = c

\* str.startswith(prefix), str.endswith(suffix)
StartsWith(str, prefix) ==
    Len(str) >= Len(prefix) /\ SubSeq(str, 1, Len(prefix)) = prefix
EndsWith(str, suffix) ==
    Len(str) >= Len(suffix)
    /\ SubSeq(str, Len(str) - Len(suffix) + 1, Len(str)) = suffix

\* str.replace(old, new): the non-overlapping occurrences, left to right.
RECURSIVE Replace(_, _, _)
Replace(str, old, new) ==
    IF Len(str) < Len(old) THEN str
    ELSE IF SubSeq(str, 1, Len(old)) = old
         THEN new \o Replace(SubSeq(str, Len(old) + 1, Len(str)), old, new)
         ELSE <<Head(str)>> \o Replace(Tail(str), old, new)

\* bytes.decode("utf-8") raises UnicodeDecodeError on an invalid byte.
Decodable(bytes) == \A k \in 1..Len(bytes) : bytes[k] # BadByte

\* u"{0}".format(x) of one argument: None is written as the text None.
Format(x) == IF x = None THEN <<"N","o","n","e">> ELSE x

\* x or None
OrNone(x) == IF x = <<>> THEN None ELSE x

\* bool(x) of a string or None
Truthy(x) == x # None /\ x # <<>>

\* ------------------------------------------------------------ files
\* A file system maps a file name to the file's lines (without terminator).
Exists(files, filename) == filename \in DOMAIN files

\* for line in file: every line comes with its newline
FileLines(files, filename) ==
    [k \in 1..Len(files[filename]) |-> files[filename][k] \o <<NL>>]

RECURSIVE Concat(_)
Concat(lines) == IF lines = <<>> THEN <<>> ELSE Head(lines) \o Concat(Tail(lines))

\* file.read()
FileRead(files, filename) == Concat(FileLines(files, filename))

\* ------------------------------------------------------------ literals
EXT_INI == <<".","i","n","i">>
EXT_HTML == <<".","h","t","m","l">>
EXT_TXT == <<".","t","x","t">>
EXT_CSV == <<".","c","s","v">>
K_SMTP == <<"S","M","T","P">>
K_FROM == <<"F","R","O","M">>
K_SUBJECT == <<"S","U","B","J","E","C","T">>
K_REPLY_TO == <<"R","E","P","L","Y","-","T","O">>
K_BCC == <<"B","C","C">>
K_FIRST_LASTNAME == <<"F","I","R","S","T","_","L","A","S","T","N","A","M","E">>
SIR_OR_MADAM == <<"S","i","r"," ","o","r"," ","M","a","d","a","m">>
PLACEHOLDER == <<"{","{">> \o K_FIRST_LASTNAME \o <<"}","}">>
DRY_RUN_FLAG == <<"-","-","d","r","y","-","r","u","n">>

\* A raised exception, as a loader's result.
Raised == [ok |-> FALSE]

\* ------------------------------------------------------------ load_config
\* _config[key] = value
DictSet(dict, key, value) ==
    [k \in (DOMAIN dict) \cup {key} |-> IF k = key THEN value ELSE dict[k]]

\* One line of the .ini file: an assignment when it splits on "=" in two.
ParseOption(config, line) ==
    LET option == Split(Strip(line), "=")
    IN  IF Len(option) = 2
        THEN DictSet(config, Upper(Strip(option[1])), Strip(option[2]))
        ELSE config

RECURSIVE ParseOptions(_, _)
ParseOptions(config, lines) ==
    IF lines = <<>> THEN config
    ELSE ParseOptions(ParseOption(config, Head(lines)), Tail(lines))

RequiredKeys == {K_SMTP, K_FROM, K_SUBJECT}

\* ApplyDefaults with a fault: REPLY-TO is set from FROM unconditionally.
ApplyDefaultsAlways(config) ==
    LET c1 == DictSet(config, K_REPLY_TO, config[K_FROM])
    IN  IF K_FIRST_LASTNAME \notin DOMAIN c1
        THEN DictSet(c1, K_FIRST_LASTNAME, SIR_OR_MADAM)
        ELSE c1

\* The fallbacks for REPLY-TO and FIRST_LASTNAME.
ApplyDefaults(config) ==
    LET c1 == IF K_REPLY_TO \notin DOMAIN config
              THEN DictSet(config, K_REPLY_TO, config[K_FROM])
              ELSE config
    IN  IF K_FIRST_LASTNAME \notin DOMAIN c1
        THEN DictSet(c1, K_FIRST_LASTNAME, SIR_OR_MADAM)
        ELSE c1

load_config(files, filename) ==
    IF ~EndsWith(filename, EXT_INI) THEN Raised
    ELSE IF ~Exists(files, filename) THEN Raised
    ELSE LET lines == FileLines(files, filename)
         IN  IF \E k \in 1..Len(lines) : ~Decodable(lines[k]) THEN Raised
             ELSE LET parsed == ParseOptions(<<>>, lines)
                  IN  IF \E key \in RequiredKeys : key \notin DOMAIN parsed
                      THEN Raised
                      ELSE [ok |-> TRUE, config |-> ApplyDefaults(parsed)]

\* ------------------------------------------------------------ load_template
load_template(files, filename) ==
    IF ~(EndsWith(filename, EXT_HTML) \/ EndsWith(filename, EXT_TXT)) THEN Raised
    ELSE IF ~Exists(files, filename) THEN Raised
    ELSE LET body == FileRead(files, filename)
         IN  IF ~Decodable(body) THEN Raised
             ELSE [ok |-> TRUE,
                   template |-> body,
                   mime_type |-> IF EndsWith(filename, EXT_HTML)
                                 THEN "html" ELSE "plain"]

\* ------------------------------------------------------------ load_emails
\* IsCommentLine with a fault: blank lines are skipped as well.
IsCommentOrBlankLine(line) == line = <<>> \/ StartsWith(line, <<"#">>)

\* The lines load_emails skips.
IsCommentLine(line) == StartsWith(line, <<"#">>)

\* The assertion on a split line.
RowValid(data) == Len(data) = 3 /\ Contains(data[3], "@")

RowRecord(data) ==
    <<OrNone(Strip(data[1])), OrNone(Strip(data[2])), Strip(data[3])>>

\* ParseRows with a fault: a malformed row ends the parse and the rows read
\* so far are returned.
RECURSIVE ParseRowsKeep(_, _)
ParseRowsKeep(emails, lines) ==
    IF lines = <<>> THEN [ok |-> TRUE, emails |-> emails]
    ELSE IF ~Decodable(Head(lines)) THEN Raised
    ELSE LET line == Strip(Head(lines))
         IN  IF IsCommentLine(line) THEN ParseRowsKeep(emails, Tail(lines))
             ELSE LET data == Split(line, ",")
                  IN  IF ~RowValid(data) THEN [ok |-> TRUE, emails |-> emails]
                      ELSE ParseRowsKeep(Append(emails, RowRecord(data)),
                                         Tail(lines))

RECURSIVE ParseRows(_, _)
ParseRows(emails, lines) ==
    IF lines = <<>> THEN [ok |-> TRUE, emails |-> emails]
    ELSE IF ~Decodable(Head(lines)) THEN Raised
    ELSE LET line == Strip(Head(lines))
         IN  IF IsCommentLine(line) THEN ParseRows(emails, Tail(lines))
             ELSE LET data == Split(line, ",")
                  IN  IF ~RowValid(data) THEN Raised
                      ELSE ParseRows(Append(emails, RowRecord(data)), Tail(lines))

load_emails(files, filename) ==
    IF ~EndsWith(filename, EXT_CSV) THEN Raised
    ELSE IF ~Exists(files, filename) THEN Raised
    ELSE ParseRows(<<>>, FileLines(files, filename))

\* ------------------------------------------------------------ program state
VARIABLES
    argv,                   \* sys.argv
    fs,                     \* the files the arguments may name
    pc,                     \* position in __main__
    exitStatus,             \* the process's exit status, -1 while running
    DRY_RUN, CONFIG, TEMPLATE, MIME_TYPE, EMAILS,
    ERRORS, SKIPPED, USED_EMAIL_ADDRESSES,
    pos,                    \* index in EMAILS of the loop's recipient
    FIRST_LASTNAME, message, msg, recipients,
    out,                    \* what was printed: <<kind, index>> events
    report,                 \* the numbers of the final "Done." line
    rendered,               \* history: the templates rendered
    connects,               \* history: calls of smtplib.SMTP(host)
    transport,              \* history: calls of s.sendmail
    connections             \* recipients whose connection is still open

vars == <<argv, fs, pc, exitStatus, DRY_RUN, CONFIG, TEMPLATE, MIME_TYPE,
          EMAILS, ERRORS, SKIPPED, USED_EMAIL_ADDRESSES, pos, FIRST_LASTNAME,
          message, msg, recipients, out, report, rendered, connects,
          transport, connections>>

inputs == <<argv, fs>>
loaded == <<DRY_RUN, CONFIG, TEMPLATE, MIME_TYPE, EMAILS>>
counters == <<ERRORS, SKIPPED>>
locals == <<FIRST_LASTNAME, message, msg, recipients>>
history == <<rendered, connects, transport>>

Running == 0 - 1
\* sys.exit(-1), as the operating system reports it
ExitFailure == (0 - 1) % 256
\* an uncaught exception ends the interpreter with status 1
ExitUncaught == 1

\* sys.argv[k], k counted from 0; an IndexError when it is missing
HasArg(k) == k + 1 <= Len(argv)
Arg(k) == argv[k + 1]
BoolInt(b) == IF b THEN 1 ELSE 0

Event(kind, at) == [kind |-> kind, at |-> at]

\* ------------------------------------------------------------ inputs
PROG == <<"m",".","p","y">>
CFG_NAME == <<"c">> \o EXT_INI
CSV_NAME == <<"e">> \o EXT_CSV

L_SMTP == K_SMTP \o <<"=","s">>
L_FROM == K_FROM \o <<"=","f">>
L_FROM2 == <<" ">> \o K_FROM \o <<" ","="," ","g">>
L_SUBJECT == K_SUBJECT \o <<"=","H","i">>
L_REPLY == K_REPLY_TO \o <<"=","r">>
L_REPLY_LOWER == <<"r","e","p","l","y","-","t","o"," ","="," ","q">>
L_REPLY_TWICE == K_REPLY_TO \o <<"=","a","=","b">>
L_BCC == K_BCC \o <<"=","b">>
L_NAME == K_FIRST_LASTNAME \o <<"=","a","l","l">>
L_COMMENT == <<"#"," ","c">>
L_GROUP == <<"[","m","]">>
L_BLANK == <<>>

CfgFull == <<L_GROUP, L_SMTP, L_FROM, L_SUBJECT, L_REPLY, L_BCC, L_NAME>>
CfgMinimal == <<L_COMMENT, L_SMTP, L_BLANK, L_FROM, L_SUBJECT>>
CfgNoSubject == <<L_SMTP, L_FROM>>

TplTxt == [name |-> <<"m">> \o EXT_TXT,
           lines |-> << <<"H","i"," ">> \o PLACEHOLDER \o <<"!">> >>]
TplHtml == [name |-> <<"m">> \o EXT_HTML,
            lines |-> << PLACEHOLDER \o <<"<","p",">">> \o PLACEHOLDER >>]
TplDoc == [name |-> <<"m",".","d","o","c">>, lines |-> << <<"H","i">> >>]
TplBadByte == [name |-> <<"b">> \o EXT_TXT, lines |-> << <<"H", BadByte>> >>]

R_JO == <<"J","o",",","D","o","e",",","j","@","x">>
R_LEE_DUP == <<",","L","e","e",",","j","@","x">>
R_ANN == <<"A","n","n",",",",","a","@","x">>
R_TWO_FIELDS == <<"A",",","B">>
R_BLANK_NAME == <<" ",",",",","k","@","x"," ">>
R_NO_AT == <<"a",",","b",",","c">>
R_FOUR_FIELDS == <<"a",",","b",",","c","@","d",",","e">>
L_COMMENT_INDENTED == <<" ","#","c">>

SeqsUpTo(S, n) == UNION {[1..k -> S] : k \in 0..n}

CsvFiles(rows) ==
    {[arg |-> <<CSV_NAME>>, lines |-> l] : l \in SeqsUpTo(rows, MaxRows)}
CsvMissingArg == [arg |-> <<>>, lines |-> <<>>]

NoFlag == <<>>
WithFlag == << <<"-","-","D","r","y","-","R","u","n">> >>

\* The state when the interpreter reaches __main__: the module's globals as
\* lines 54-57 set them, and a command line.
InitWith(flags, cfgs, tpls, csvs) ==
    /\ \/ \E flag \in flags, cfg \in cfgs, tpl \in tpls, csv \in csvs :
             /\ argv = <<PROG>> \o flag \o <<CFG_NAME, tpl.name>> \o csv.arg
             /\ fs = (CFG_NAME :> cfg) @@ (tpl.name :> tpl.lines)
                     @@ (CSV_NAME :> csv.lines)
       \/ /\ argv = <<PROG>>
          /\ fs = (CFG_NAME :> CfgFull)
    /\ pc = "flag"
    /\ exitStatus = Running
    /\ DRY_RUN = FALSE
    /\ CONFIG = <<>>
    /\ TEMPLATE = None
    /\ MIME_TYPE = "undefined"
    /\ EMAILS = <<>>
    /\ ERRORS = 0
    /\ SKIPPED = 0
    /\ USED_EMAIL_ADDRESSES = {}
    /\ pos = 1
    /\ FIRST_LASTNAME = None
    /\ message = None
    /\ msg = <<>>
    /\ recipients = <<>>
    /\ out = <<>>
    /\ report = <<>>
    /\ rendered = <<>>
    /\ connects = 0
    /\ transport = <<>>
    /\ connections = {}

Init ==
    InitWith({NoFlag, WithFlag},
             {CfgFull, CfgMinimal, CfgNoSubject},
             {TplTxt, TplHtml, TplDoc},
             CsvFiles({R_JO, R_LEE_DUP, R_ANN, R_BLANK_NAME, R_TWO_FIELDS})
                 \cup {CsvMissingArg})

\* Config files that differ in their FROM and REPLY-TO lines.
CfgVariants ==
    {base \o extra : base \in {<<L_SMTP, L_SUBJECT>>, <<L_SMTP>>},
                     extra \in SeqsUpTo({L_FROM, L_FROM2, L_REPLY,
                                         L_REPLY_LOWER, L_REPLY_TWICE},
                                        MaxCfgExtra)}

InitConfig ==
    InitWith({NoFlag, WithFlag},
             CfgVariants,
             {TplTxt, TplDoc},
             {[arg |-> <<CSV_NAME>>, lines |-> <<R_JO, R_LEE_DUP>>],
              [arg |-> <<CSV_NAME>>, lines |-> <<R_TWO_FIELDS>>],
              CsvMissingArg})

InitEmails ==
    InitWith({NoFlag, WithFlag},
             {CfgFull, CfgNoSubject},
             {TplTxt, TplBadByte},
             CsvFiles({R_JO, R_LEE_DUP, R_BLANK_NAME, L_BLANK, L_COMMENT,
                       L_COMMENT_INDENTED, R_TWO_FIELDS, R_NO_AT,
                       R_FOUR_FIELDS}) \cup {CsvMissingArg})

\* ------------------------------------------------------------ initialisation
\* The bare except of the initialisation: traceback, usage, sys.exit(-1).
InitFails ==
    /\ pc' = "exit"
    /\ exitStatus' = ExitFailure
    /\ out' = out \o <<Event("Fail.", 0), Event("usage", 0)>>

ParseFlag ==
    /\ pc = "flag"
    /\ IF HasArg(1)
       THEN /\ DRY_RUN' = (Lower(Arg(1)) = DRY_RUN_FLAG)
            /\ pc' = "config"
            /\ UNCHANGED <<exitStatus, out>>
       ELSE /\ InitFails
            /\ UNCHANGED DRY_RUN
    /\ UNCHANGED <<inputs, CONFIG, TEMPLATE, MIME_TYPE, EMAILS, counters,
                   USED_EMAIL_ADDRESSES, pos, locals, report, history,
                   connections>>

LoadConfig ==
    /\ pc = "config"
    /\ LET k == 1 + BoolInt(DRY_RUN)
           r == IF HasArg(k) THEN load_config(fs, Arg(k)) ELSE Raised
       IN  IF r.ok
           THEN /\ CONFIG' = r.config
                /\ pc' = "template"
                /\ UNCHANGED <<exitStatus, out>>
           ELSE /\ InitFails
                /\ UNCHANGED CONFIG
    /\ UNCHANGED <<inputs, DRY_RUN, TEMPLATE, MIME_TYPE, EMAILS, counters,
                   USED_EMAIL_ADDRESSES, pos, locals, report, history,
                   connections>>

LoadTemplate ==
    /\ pc = "template"
    /\ LET k == 2 + BoolInt(DRY_RUN)
           r == IF HasArg(k) THEN load_template(fs, Arg(k)) ELSE Raised
       IN  IF r.ok
           THEN /\ TEMPLATE' = r.template
                /\ MIME_TYPE' = r.mime_type
                /\ pc' = "emails"
                /\ UNCHANGED <<exitStatus, out>>
           ELSE /\ InitFails
                /\ UNCHANGED <<TEMPLATE, MIME_TYPE>>
    /\ UNCHANGED <<inputs, DRY_RUN, CONFIG, EMAILS, counters,
                   USED_EMAIL_ADDRESSES, pos, locals, report, history,
                   connections>>

LoadEmails ==
    /\ pc = "emails"
    /\ LET k == 3 + BoolInt(DRY_RUN)
           r == IF HasArg(k) THEN load_emails(fs, Arg(k)) ELSE Raised
       IN  IF r.ok
           THEN /\ EMAILS' = r.emails
                /\ pc' = "loop"
                /\ out' = Append(out, Event("Init.", 0))
                /\ UNCHANGED exitStatus
           ELSE /\ InitFails
                /\ UNCHANGED EMAILS
    /\ UNCHANGED <<inputs, DRY_RUN, CONFIG, TEMPLATE, MIME_TYPE, counters,
                   USED_EMAIL_ADDRESSES, pos, locals, report, history,
                   connections>>

\* ------------------------------------------------------------ send loop
\* IsDuplicate with a fault: no address counts as used.
IsDuplicateNever(email, used) == FALSE

\* email in USED_EMAIL_ADDRESSES
IsDuplicate(email, used) == email \in used

\* USED_EMAIL_ADDRESSES.add(email)
MarkSeen(used, email) == used \cup {email}

\* The FIRST_LASTNAME template variable of a recipient.
DisplayName(recipient, config) ==
    IF Truthy(recipient[1])
    THEN Strip(Format(recipient[1]) \o <<" ">> \o Format(recipient[2]))
    ELSE config[K_FIRST_LASTNAME]

Header(name, value) == [name |-> name, value |-> value]

\* MIMEText(message, MIME_TYPE, "utf-8") and the four headers set on it.
BuildMessage(body, mime_type, config, email) ==
    [payload |-> body,
     headers |-> <<Header("Content-Type", <<"text/", mime_type, "; charset=utf-8">>),
                   Header("MIME-Version", <<"1.0">>),
                   Header("Content-Transfer-Encoding", <<"base64">>),
                   Header("From", config[K_FROM]),
                   Header("Reply-To", config[K_REPLY_TO]),
                   Header("To", email),
                   Header("Subject", config[K_SUBJECT])>>]

\* Recipients with a fault: the BCC address is never added.
RecipientsWithoutBcc(email, config) == <<email>>

\* The recipients list of the sendmail call.
Recipients(email, config) ==
    IF K_BCC \in DOMAIN config THEN <<email, config[K_BCC]>> ELSE <<email>>

\* UseTransport with a fault: the dry-run flag is not consulted.
UseTransportAlways(dry_run) == TRUE

\* if not DRY_RUN
UseTransport(dry_run) == ~dry_run

\* Totals with a fault: the skipped entries are left out of the message count.
TotalsOfAttempts(errors, skipped, emails) ==
    <<errors, skipped, Len(emails) - skipped>>

\* The three numbers of the "Done." line.
Totals(errors, skipped, emails) == <<errors, skipped, Len(emails)>>

\* except smtplib.SMTPException: count, report, go on with the next recipient
Except_SMTPException ==
    /\ ERRORS' = ERRORS + 1
    /\ out' = Append(out, Event("Fail.", pos))
    /\ pos' = pos + 1
    /\ pc' = "loop"

\* An exception no handler catches: traceback, the interpreter exits.
Uncaught ==
    /\ pc' = "crashed"
    /\ exitStatus' = ExitUncaught
    /\ UNCHANGED <<ERRORS, out, pos>>

\* A recipient whose address was used already.
SkipDuplicate ==
    /\ pc = "loop"
    /\ pos <= Len(EMAILS)
    /\ IsDuplicate(EMAILS[pos][3], USED_EMAIL_ADDRESSES)
    /\ out' = Append(out, Event("Skip.", pos))
    /\ SKIPPED' = SKIPPED + 1
    /\ pos' = pos + 1
    /\ UNCHANGED <<inputs, pc, exitStatus, loaded, ERRORS,
                   USED_EMAIL_ADDRESSES, locals, report, history, connections>>

\* A new address: mark it used, render the template, build the message.
Prepare ==
    /\ pc = "loop"
    /\ pos <= Len(EMAILS)
    /\ LET recipient == EMAILS[pos]
           email == recipient[3]
       IN  /\ ~IsDuplicate(email, USED_EMAIL_ADDRESSES)
           /\ USED_EMAIL_ADDRESSES' = MarkSeen(USED_EMAIL_ADDRESSES, email)
           /\ FIRST_LASTNAME' = DisplayName(recipient, CONFIG)
           /\ message' = Replace(TEMPLATE, PLACEHOLDER, FIRST_LASTNAME')
           /\ msg' = BuildMessage(message', MIME_TYPE, CONFIG, email)
           /\ recipients' = Recipients(email, CONFIG)
           /\ rendered' = Append(rendered, [at |-> pos,
                                            name |-> FIRST_LASTNAME',
                                            body |-> message'])
    /\ pc' = "try"
    /\ UNCHANGED <<inputs, exitStatus, loaded, counters, pos, out, report,
                   connects, transport, connections>>

\* The --dry-run branch: two prints, no transport.
DryRunPrint ==
    /\ pc = "try"
    /\ ~UseTransport(DRY_RUN)
    /\ out' = out \o <<Event("Test.", pos), Event("Data.", pos)>>
    /\ pos' = pos + 1
    /\ pc' = "loop"
    /\ UNCHANGED <<inputs, exitStatus, loaded, counters,
                   USED_EMAIL_ADDRESSES, locals, report, history, connections>>

\* s = smtplib.SMTP(CONFIG["SMTP"])
Connect ==
    /\ pc = "try"
    /\ UseTransport(DRY_RUN)
    /\ connects' = connects + 1
    /\ \/ \* connected; the object s named before is released
          /\ connections' = {pos}
          /\ pc' = "sendmail"
          /\ UNCHANGED <<ERRORS, out, pos, exitStatus>>
       \/ \* SMTPConnectError: the server's greeting is not 220
          /\ Except_SMTPException
          /\ UNCHANGED <<connections, exitStatus>>
       \/ \* socket.error: no route, refused, unknown host
          /\ Uncaught
          /\ UNCHANGED connections
    /\ UNCHANGED <<inputs, loaded, SKIPPED, USED_EMAIL_ADDRESSES, locals,
                   report, rendered, transport>>

\* s.sendmail(CONFIG["FROM"], recipients, msg.as_string())
Sendmail ==
    /\ pc = "sendmail"
    /\ transport' = Append(transport, [at |-> pos,
                                       from |-> CONFIG[K_FROM],
                                       to |-> recipients,
                                       msg |-> msg])
    /\ \/ \* accepted
          /\ pc' = "quit"
          /\ UNCHANGED <<ERRORS, out, pos, connections>>
       \/ \* SMTPRecipientsRefused, SMTPSenderRefused, SMTPDataError,
          \* SMTPHeloError: raised with the connection left as it is
          /\ Except_SMTPException
          /\ UNCHANGED connections
       \/ \* SMTPServerDisconnected: smtplib closes the socket and raises
          /\ Except_SMTPException
          /\ connections' = connections \ {pos}
    /\ UNCHANGED <<inputs, exitStatus, loaded, SKIPPED, USED_EMAIL_ADDRESSES,
                   locals, report, rendered, connects>>

\* s.quit() and the "Sent." line
Quit ==
    /\ pc = "quit"
    /\ connections' = connections \ {pos}
    /\ \/ /\ out' = Append(out, Event("Sent.", pos))
          /\ pos' = pos + 1
          /\ pc' = "loop"
          /\ UNCHANGED ERRORS
       \/ \* SMTPServerDisconnected while waiting for the reply to QUIT
          Except_SMTPException
    /\ UNCHANGED <<inputs, exitStatus, loaded, SKIPPED, USED_EMAIL_ADDRESSES,
                   locals, report, history>>

\* The loop is exhausted: the "Done." line, and the script ends.
Report ==
    /\ pc = "loop"
    /\ pos > Len(EMAILS)
    /\ report' = Totals(ERRORS, SKIPPED, EMAILS)
    /\ out' = Append(out, Event("Done.", 0))
    /\ pc' = "done"
    /\ exitStatus' = 0
    /\ UNCHANGED <<inputs, loaded, counters, USED_EMAIL_ADDRESSES, pos,
                   locals, history, connections>>

Next ==
    \/ ParseFlag
    \/ LoadConfig
    \/ LoadTemplate
    \/ LoadEmails
    \/ SkipDuplicate
    \/ Prepare
    \/ DryRunPrint
    \/ Connect
    \/ Sendmail
    \/ Quit
    \/ Report

Spec == Init /\ [][Next]_vars
SpecConfig == InitConfig /\ [][Next]_vars
SpecEmails == InitEmails /\ [][Next]_vars

\* ------------------------------------------------------------ vocabulary
\* What the properties below say about a run, read off the inputs and the
\* histories rather than off the loaders' and the loop's own operators.

\* The recipient entries with an index, and their addresses.
Entries == 1..Len(EMAILS)
Address(k) == EMAILS[k][3]
FirstOccurrence(k) == \A j \in 1..(k - 1) : Address(j) # Address(k)

\* The entries an event of a kind was printed for.
Printed(kind) == {out[n].at : n \in {m \in 1..Len(out) : out[m].kind = kind}}
RenderedAt == {rendered[n].at : n \in 1..Len(rendered)}
TransportAt == {transport[n].at : n \in 1..Len(transport)}

InLoop == pc \in {"loop", "try", "sendmail", "quit"}

\* The command line, read independently of ParseFlag.
FlagGiven == Len(argv) >= 2 /\ Lower(argv[2]) = DRY_RUN_FLAG
ArgsComplete == Len(argv) = 4 + BoolInt(FlagGiven)
TemplateName == argv[3 + BoolInt(FlagGiven)]

\* The text of a line on each side of its first separator.
CountChar(str, c) == Cardinality({k \in 1..Len(str) : str[k] = c})
FirstAt(str, c) == CHOOSE k \in 1..Len(str) :
                       str[k] = c /\ \A j \in 1..(k - 1) : str[j] # c
Before(str, c) == SubSeq(str, 1, FirstAt(str, c) - 1)
After(str, c) == SubSeq(str, FirstAt(str, c) + 1, Len(str))

\* A config line that assigns to a key: exactly one "=", the key before it.
IsAssignment(line, key) ==
    CountChar(line, "=") = 1 /\ Upper(Strip(Before(line, "="))) = key
Assigns(lines, key) == {k \in 1..Len(lines) : IsAssignment(lines[k], key)}
LastAssigned(lines, key) ==
    LET k == CHOOSE k \in Assigns(lines, key) :
                 \A j \in Assigns(lines, key) : j <= k
    IN  Strip(After(lines[k], "="))

\* A recipient line: blank, a comment, or three fields with an @ in the third.
IsBlank(line) == \A k \in 1..Len(line) : line[k] \in Whitespace
IsComment(line) ==
    \E k \in 1..Len(line) :
        line[k] = "#" /\ \A j \in 1..(k - 1) : line[j] \in Whitespace
WellFormed(line) ==
    /\ CountChar(line, ",") = 2
    /\ Contains(After(After(line, ","), ","), "@")

CfgFile == fs[CFG_NAME]
CsvFile == fs[CSV_NAME]
MissingRequiredKey == \E key \in RequiredKeys : Assigns(CfgFile, key) = {}
UnsupportedKind ==
    ~(EndsWith(TemplateName, EXT_TXT) \/ EndsWith(TemplateName, EXT_HTML))
MalformedRow ==
    \E k \in 1..Len(CsvFile) :
        ~IsBlank(CsvFile[k]) /\ ~IsComment(CsvFile[k]) /\ ~WellFormed(CsvFile[k])

\* load_emails has run, and whether it returned.
EmailsRan == ArgsComplete /\ TEMPLATE # None /\ pc # "emails"
EmailsAccepted == EmailsRan /\ pc # "exit"

\* ------------------------------------------------------------ C1
\* C1: at most one render/send attempt per distinct address: only the first
\* entry with an address is rendered or handed to the transport, every later
\* entry with that address is printed as skipped and counted in SKIPPED, also
\* when the first attempt failed.
C1_OneAttemptPerAddress ==
    /\ \A m, n \in 1..Len(rendered) :
          m # n => Address(rendered[m].at) # Address(rendered[n].at)
    /\ \A m, n \in 1..Len(transport) :
          m # n => transport[m].to[1] # transport[n].to[1]
    /\ \A k \in RenderedAt \cup TransportAt : FirstOccurrence(k)
    /\ \A n \in 1..Len(transport) :
          transport[n].to[1] = Address(transport[n].at)
    /\ \A k \in Entries :
          (k < pos /\ ~FirstOccurrence(k)) =>
              k \in Printed("Skip.") /\ k \notin RenderedAt
    /\ Printed("Skip.") = {k \in Entries : k < pos /\ ~FirstOccurrence(k)}
    /\ SKIPPED = Cardinality(Printed("Skip."))

\* A finished live run in which the first attempt for an address failed and a
\* later entry with the same address and other name fields was skipped.
C1_Witness ==
    /\ pc = "done"
    /\ ~DRY_RUN
    /\ \E j, k \in Entries :
          /\ j < k
          /\ Address(j) = Address(k)
          /\ EMAILS[j][1] # EMAILS[k][1]
          /\ j \in Printed("Fail.")
          /\ k \in Printed("Skip.")

\* ------------------------------------------------------------ C2
\* C2: a failure the transport reports for one recipient, at opening the
\* connection, at submitting or at closing, never aborts the run.
C2_TransportFailureNeverAborts == pc # "crashed" /\ exitStatus # ExitUncaught

\* ------------------------------------------------------------ C3
\* C3: in a dry run no connection is opened, sendmail is never called and the
\* error counter stays 0, up to and including the final report.
C3_DryRunNeverUsesTransport ==
    DRY_RUN =>
        /\ connects = 0
        /\ transport = <<>>
        /\ connections = {}
        /\ pc \notin {"sendmail", "quit", "crashed"}
        /\ ERRORS = 0
        /\ Printed("Sent.") = {}
        /\ pc = "done" => report[1] = 0

\* A finished dry run that rendered two recipients.
C3_Witness ==
    /\ DRY_RUN
    /\ pc = "done"
    /\ Len(rendered) >= 2
    /\ Cardinality(Printed("Test.")) >= 2

\* ------------------------------------------------------------ C4
\* C4: the totals of the final report are exact: errors is the number of
\* recipients whose transport attempt failed, skipped the number of entries
\* whose address occurred earlier, the total the length of the list; in a
\* live run the successful sends number total - errors - skipped.
C4_TotalsExact ==
    pc = "done" =>
        /\ report[1] = Cardinality({k \in RenderedAt :
                                       ~DRY_RUN /\ k \notin Printed("Sent.")})
        /\ report[1] = Cardinality(Printed("Fail."))
        /\ report[2] = Cardinality({k \in Entries : ~FirstOccurrence(k)})
        /\ report[3] = Len(EMAILS)
        /\ ~DRY_RUN =>
              Cardinality(Printed("Sent.")) = report[3] - report[1] - report[2]

\* One transport error among three distinct recipients: 1 error, 0 skipped,
\* 3 messages, two sent.
C4_Witness ==
    /\ pc = "done"
    /\ ~DRY_RUN
    /\ report = <<1, 0, 3>>
    /\ Cardinality(Printed("Sent.")) = 2

\* ------------------------------------------------------------ C5
\* C5: when a required key is missing, the template kind is unsupported or a
\* recipient row is malformed, the run never enters the send loop: nothing is
\* rendered, the transport is never used, and the exit status is non-zero.
C5_LoadFailureAborts ==
    (ArgsComplete /\ (MissingRequiredKey \/ UnsupportedKind \/ MalformedRow)) =>
        /\ ~InLoop
        /\ pc \notin {"done", "crashed"}
        /\ rendered = <<>>
        /\ connects = 0
        /\ transport = <<>>
        /\ exitStatus \in {Running, ExitFailure}
        /\ pc = "exit" => exitStatus = ExitFailure /\ exitStatus # 0

\* The run has exited on a recipient file whose first row is valid and whose
\* second row is malformed, config and template being loaded.
C5_Witness ==
    /\ pc = "exit"
    /\ ArgsComplete
    /\ TEMPLATE # None
    /\ Len(CsvFile) >= 2
    /\ WellFormed(CsvFile[1])
    /\ ~IsBlank(CsvFile[2]) /\ ~IsComment(CsvFile[2]) /\ ~WellFormed(CsvFile[2])

\* ------------------------------------------------------------ C6
\* C6 (as claimed): the recipient file is accepted exactly when every
\* non-blank line that is no comment is well formed; blank lines and comments
\* yield no record and no failure.
C6_BlankLinesIgnored ==
    EmailsRan =>
        /\ EmailsAccepted <=>
              \A k \in 1..Len(CsvFile) :
                  IsBlank(CsvFile[k]) \/ IsComment(CsvFile[k])
                  \/ WellFormed(CsvFile[k])
        /\ EmailsAccepted =>
              Len(EMAILS) = Cardinality({k \in 1..Len(CsvFile) :
                                ~IsBlank(CsvFile[k]) /\ ~IsComment(CsvFile[k])})

\* C6 (amended): the recipient file is accepted exactly when every line that
\* is no comment, blank lines included, is well formed; only comments are
\* ignored, a blank line fails the load, and every other line yields a record.
C6_OnlyCommentsIgnored ==
    EmailsRan =>
        /\ EmailsAccepted <=>
              \A k \in 1..Len(CsvFile) :
                  IsComment(CsvFile[k]) \/ WellFormed(CsvFile[k])
        /\ EmailsAccepted =>
              Len(EMAILS) = Cardinality({k \in 1..Len(CsvFile) :
                                            ~IsComment(CsvFile[k])})
        /\ (\E k \in 1..Len(CsvFile) : IsBlank(CsvFile[k])) => ~EmailsAccepted

\* The load has failed on a file whose only fault is a blank line.
C6_Witness ==
    /\ EmailsRan
    /\ pc = "exit"
    /\ \E k \in 1..Len(CsvFile) : IsBlank(CsvFile[k])
    /\ \E k \in 1..Len(CsvFile) : WellFormed(CsvFile[k])
    /\ \A k \in 1..Len(CsvFile) :
          IsBlank(CsvFile[k]) \/ IsComment(CsvFile[k]) \/ WellFormed(CsvFile[k])

\* ------------------------------------------------------------ C7
\* The display name as the claim states it.
ClaimedDisplayName(recipient) ==
    IF recipient[1] # None
    THEN Strip(recipient[1] \o <<" ">>
               \o (IF recipient[2] = None THEN <<>> ELSE recipient[2]))
    ELSE CONFIG[K_FIRST_LASTNAME]

\* C7: the display name of a rendered recipient is the first name, a space
\* and the last name, trimmed, an absent last name counting as empty; with
\* the first name absent it is the config's FIRST_LASTNAME.
C7_DisplayName ==
    \A n \in 1..Len(rendered) :
        rendered[n].name = ClaimedDisplayName(EMAILS[rendered[n].at])

\* ------------------------------------------------------------ C8
HeaderNames(m) == [k \in 1..Len(m.headers) |-> m.headers[k].name]
HeaderValue(m, name) ==
    m.headers[CHOOSE k \in 1..Len(m.headers) : m.headers[k].name = name].value

\* C8: sendmail gets [email] without a BCC key and [email, BCC] with one, and
\* the message carries the MIME headers and From, Reply-To, To, Subject, no
\* header named Bcc.
C8_EnvelopeAndHeaders ==
    \A n \in 1..Len(transport) :
        LET call == transport[n]
            email == Address(call.at)
        IN  /\ call.to = IF Assigns(CfgFile, K_BCC) # {}
                         THEN <<email, LastAssigned(CfgFile, K_BCC)>>
                         ELSE <<email>>
            /\ HeaderNames(call.msg) =
                  <<"Content-Type", "MIME-Version", "Content-Transfer-Encoding",
                    "From", "Reply-To", "To", "Subject">>
            /\ \A k \in 1..Len(call.msg.headers) :
                  call.msg.headers[k].name \notin {"Bcc", "BCC", "bcc", "Cc"}
            /\ HeaderValue(call.msg, "From") = CONFIG[K_FROM]
            /\ HeaderValue(call.msg, "Reply-To") = CONFIG[K_REPLY_TO]
            /\ HeaderValue(call.msg, "To") = email
            /\ HeaderValue(call.msg, "Subject") = CONFIG[K_SUBJECT]

\* A sendmail call under a config with a BCC key.
C8_Witness ==
    /\ Len(transport) >= 1
    /\ Assigns(CfgFile, K_BCC) # {}
    /\ Len(transport[1].to) = 2

\* ------------------------------------------------------------ C9
\* C9: a loaded config has REPLY-TO equal to FROM when the file assigns no
\* REPLY-TO, and equal to the assigned value otherwise, wherever the
\* REPLY-TO line stands.
C9_ReplyToDefault ==
    (ArgsComplete /\ K_REPLY_TO \in DOMAIN CONFIG) =>
        /\ CONFIG[K_FROM] = LastAssigned(CfgFile, K_FROM)
        /\ CONFIG[K_REPLY_TO] =
              IF Assigns(CfgFile, K_REPLY_TO) = {}
              THEN CONFIG[K_FROM]
              ELSE LastAssigned(CfgFile, K_REPLY_TO)

\* A loaded config whose file assigns REPLY-TO before FROM, to another value.
C9_Witness ==
    /\ ArgsComplete
    /\ K_REPLY_TO \in DOMAIN CONFIG
    /\ \E j \in Assigns(CfgFile, K_REPLY_TO) :
          \A k \in Assigns(CfgFile, K_FROM) : j < k
    /\ CONFIG[K_REPLY_TO] # CONFIG[K_FROM]

\* ------------------------------------------------------------ C10
\* C10: whenever the loop turns to the next recipient, and at the final
\* report, no connection opened for an earlier recipient is still open.
C10_NoConnectionLeftOpen == pc \in {"loop", "done"} => connections = {}

====
